---- MODULE Spec2Model ----
(***************************************************************************)
(* Model of the Coastal Seven deployment agent (backend/app).              *)
(*                                                                         *)
(* Spec           the cloud pipeline: CloudDeploymentService               *)
(*                .deploy_local_project -> LLMService.analyze_repository   *)
(*                -> S3Manager.upload_project -> NativeDeployer            *)
(*                .deploy_native (upload_to_s3, create_native_script,      *)
(*                launch_new_instance, _wait_for_instance_ready,           *)
(*                _monitor_aws_internals, _wait_for_deployment) -> result. *)
(* FairSpec       Spec with the fairness of a sequential program that      *)
(*                keeps executing its next statement.                      *)
(* SpecAnalyzer   the two analyze_repository variants on every project     *)
(*                layout and inference outcome.                            *)
(* SpecTranslate  _convert_to_linux_command on bounded command strings.    *)
(* SpecPack       the two packers on every project file set.               *)
(***************************************************************************)
EXTENDS Integers, Sequences, FiniteSets, TLC

VARIABLES
    pc,            \* position of the running call
    project,       \* the project path given by the caller: [exists, files, java_name]
    analysis,      \* dict returned by analyze_repository
    technology,    \* _extract_technology(analysis)
    s3_objects,    \* objects stored in S3: set of [by, files]
    s3_url,        \* artifact address handed to the bootstrap script
    instances,     \* EC2: instance id -> [project, state]
    instance_id,   \* id returned by run_instances for this deployment
    latest_ip,     \* public_ip read by describe_instances
    ports_to_check,\* _wait_for_deployment: expected ports
    elapsed_time,  \* _wait_for_deployment: loop variable
    ports_open,    \* _wait_for_deployment: counter of the last tick
    attempts,      \* history: polling attempts made
    sleeps,        \* history: time.sleep(check_interval) calls made
    last_open,     \* history: ports that accepted a connection on the last tick
    seen_open,     \* history: ports found open on some earlier tick
    verified,      \* deployment_successful
    deployment_urls, \* dict returned by deploy_to_ec2_native
    deployment_result, \* dict returned by deploy_native
    result,        \* value returned to the caller of the entry point
    failed_at,     \* history: the step whose exception reached the coordinator
    steps,         \* history: steps started, in order
    ec2_calls,     \* history: state-changing EC2 calls issued, in order
    health,        \* history: outcome of the status-check wait and the sleep after it
    deployments,   \* concurrent deployments of one project: name -> its state
    inference,     \* history: outcome of the remote inference call of an analyzer
    cmd,           \* translator: the command string (sequence of characters)
    out1,          \* translator: translate(cmd)
    out2,          \* translator: translate(translate(cmd))
    plan,          \* local executor: instructions["services"]
    deployed_services, \* local executor: results of _deploy_service so far
    threads,       \* local executor: the deploy_process thread of each service
    local_result,  \* local executor: what execute_deployment returned
    ssh_config,    \* ssh executor: the readme_config it is called with
    ssh_commands,  \* ssh executor: the command list of create_ssh_commands
    ssh_log,       \* ssh executor: exit status of each command executed
    ssh_open,      \* ssh executor: the connection: "none", "open" or "closed"
    remote,        \* ssh executor: what /home/ubuntu/<project> holds on the instance
    content,       \* extraction: the text of the inference response
    parsed         \* extraction: what the analyzer parsed out of it

vars == <<pc, project, analysis, technology, s3_objects, s3_url, instances,
          instance_id, latest_ip, ports_to_check, elapsed_time, ports_open,
          attempts, sleeps, last_open, seen_open, verified, deployment_urls,
          deployment_result, result, failed_at, steps, ec2_calls, health,
          deployments, inference,
          cmd, out1, out2, plan, deployed_services, threads, local_result,
          ssh_config, ssh_commands, ssh_log, ssh_open, remote, content,
          parsed>>

input_vars == <<project>>
analysis_vars == <<analysis, technology>>
s3_vars == <<s3_objects, s3_url>>
ec2_vars == <<instances, instance_id, latest_ip, ec2_calls, health,
              deployments>>
verifier_vars == <<ports_to_check, elapsed_time, ports_open, attempts, sleeps,
                   last_open, seen_open, verified>>
launch_vars == <<deployment_urls, deployment_result>>
translate_vars == <<cmd, out1, out2>>
local_vars == <<plan, deployed_services, threads, local_result>>
ssh_vars == <<ssh_config, ssh_commands, ssh_log, ssh_open, remote>>
extract_vars == <<content, parsed>>
pipeline_vars == <<s3_vars, ec2_vars, verifier_vars, launch_vars, result,
                   failed_at, steps>>

-----------------------------------------------------------------------------
(* Values *)

None == "<None>"          \* Python None (a JSON null)
Absent == "<absent>"      \* a key the dict does not have
NoResult == [status |-> "<none>"]
NotCalled == [kind |-> "<not called>"]

\* dict.get(key, default): the default only when the key is absent
Get(v, default) == IF v = Absent THEN default ELSE v

-----------------------------------------------------------------------------
(* The project directory: a set of files, each a path relative to the      *)
(* project root, written as the sequence of its components.                *)

Paths ==
    { <<"README.md">>, <<"requirements.txt">>, <<"package.json">>,
      <<"backend", "requirements.txt">>, <<"backend", "package.json">>,
      <<"frontend", "package.json">>, <<".git", "config">>,
      <<"node_modules", "m.js">>, <<"build", "out.js">> }

FileExists(files, p) == p \in files

\* os.path.exists of a directory directly under the root
DirExists(files, d) == \E p \in files : Len(p) > 1 /\ p[1] = d

-----------------------------------------------------------------------------
(* The remote inference call of app/services/llm_service.py.               *)
(* _send_llm_request returns {"error": ...} on a non-200 status, a timeout *)
(* or any exception, and {"content": ...} otherwise.                       *)

\* timeout / http500: the request failed; empty: content ""; nojson: no
\* '{' or '}' in the content; badjson: the {..} span does not parse.
LLMFailureKinds == {"timeout", "http500", "empty", "nojson", "badjson"}

LLMResponses ==
    \* A response whose content holds a JSON object.  wellformed = FALSE stands
    \* for an object with a command field of a type on which
    \* _convert_to_linux_command raises (a list for a run command).
    LET LLMConfigs ==
            LET FrontendTechs == {Absent, None, "null", "react"}
            IN
            LET BackendTechs == {Absent, None, "null", "python", "java", "go"}
            IN
            LET ProjectTypes == {"full_stack", "backend_only", "frontend_only"}
            IN
            [kind : {"json"}, project_type : ProjectTypes,
             backend_technology : BackendTechs,
             frontend_technology : FrontendTechs, wellformed : BOOLEAN]
    IN
    LET LLMFailure(k) ==
            [kind |-> k, project_type |-> Absent, backend_technology |-> Absent,
             frontend_technology |-> Absent, wellformed |-> TRUE]
    IN  LLMConfigs \cup { LLMFailure(k) : k \in LLMFailureKinds }

-----------------------------------------------------------------------------
(* app/services/llm_service.py: LLMService                                 *)

Service(type, tech, framework, path) ==
    [type |-> type, technology |-> tech, framework |-> framework, path |-> path]

NoReadmeConfig == [present |-> FALSE, backend |-> None, frontend |-> None]

\* a returned plan dict
Plan(services, cfg) == [kind |-> "plan", services |-> services, readme_config |-> cfg]

\* an exception leaving the function instead of a return value
Raised == [kind |-> "raise", services |-> << >>, readme_config |-> NoReadmeConfig]

\* the dict returned by the except clause of analyze_repository (line 29)
DefaultPlan == Plan(<< Service("backend", "python", "fastapi", ".") >>, NoReadmeConfig)

\* _analyze_from_structure: marker files in backend/, frontend/, then root
BackendServices(files) ==
    IF DirExists(files, "backend")
    THEN IF FileExists(files, <<"backend", "requirements.txt">>)
         THEN << Service("backend", "python", "fastapi", "backend") >>
         ELSE IF FileExists(files, <<"backend", "package.json">>)
              THEN << Service("backend", "node", "express", "backend") >>
              ELSE << >>
    ELSE << >>

FrontendServices(files) ==
    IF DirExists(files, "frontend") /\ FileExists(files, <<"frontend", "package.json">>)
    THEN << Service("frontend", "react", "react", "frontend") >>
    ELSE << >>

RootServices(files) ==
    IF FileExists(files, <<"requirements.txt">>)
    THEN << Service("backend", "python", "fastapi", ".") >>
    ELSE IF FileExists(files, <<"package.json">>)
         THEN << Service("backend", "node", "express", ".") >>
         ELSE << Service("backend", "python", "fastapi", ".") >>

analyze_from_structure(files) ==
    LET found == BackendServices(files) \o FrontendServices(files)
    IN  Plan(IF found = << >> THEN RootServices(files) ELSE found, NoReadmeConfig)

\* the `if deployment_config.get(X) and deployment_config.get(X) != "null"` test
Declared(tech) ==
    \* Python truthiness of dict.get(key) for a string-or-None value
    LET Truthy(v) == Get(v, None) # None /\ v # ""
    IN  Truthy(tech) /\ tech # "null"

ReadmeBackend(c) ==
    IF Declared(c.backend_technology)
    THEN << Service("backend", c.backend_technology, "from_readme",
                    IF c.project_type = "full_stack" THEN "backend" ELSE ".") >>
    ELSE << >>

ReadmeFrontend(c) ==
    IF Declared(c.frontend_technology)
    THEN << Service("frontend", c.frontend_technology, "from_readme", "frontend") >>
    ELSE IF c.project_type = "frontend_only"
         THEN << Service("frontend", Get(c.frontend_technology, "static"),
                         "from_readme", ".") >>
         ELSE << >>

\* the dict built at lines 201-218 from a parsed deployment_config
ReadmePlan(c) ==
    Plan(ReadmeBackend(c) \o ReadmeFrontend(c),
         [present |-> TRUE,
          backend |-> IF Declared(c.backend_technology) THEN "commands" ELSE None,
          frontend |-> IF Declared(c.frontend_technology) THEN "commands" ELSE None])

\* TRUE when the try body of _analyze_from_readme raises: the request
\* failed (line 142), the content is empty (152), holds no JSON (159), does
\* not parse (223), or a field makes the conversion raise (226)
ReadmeRaises(llm) ==
    \/ llm.kind \in LLMFailureKinds
    \/ llm.kind = "json" /\ ~llm.wellformed

\* the try body of _analyze_from_readme (lines 34-226)
readme_body(llm) == IF ReadmeRaises(llm) THEN Raised ELSE ReadmePlan(llm)

\* an except clause that returns the default plan
analyze_from_readme_default(files, llm) ==
    LET r == readme_body(llm)
    IN  IF r.kind = "raise" THEN DefaultPlan ELSE r

\* _analyze_from_readme: the except clause (lines 228-231) falls back to
\* the structure analysis
analyze_from_readme(files, llm) ==
    LET r == readme_body(llm)
    IN  IF r.kind = "raise" THEN analyze_from_structure(files) ELSE r

\* analyze_repository (app variant): README first, then the structure; the
\* except clause (lines 27-29) returns the default plan
analyze_repository(files, llm) ==
    LET r == IF FileExists(files, <<"README.md">>)
             THEN analyze_from_readme(files, llm)
             ELSE analyze_from_structure(files)
    IN  IF r.kind = "raise" THEN DefaultPlan ELSE r

\* _extract_technology
extract_technology(a) ==
    IF a.services # << >> THEN a.services[1].technology ELSE "python"

-----------------------------------------------------------------------------
(* app/tools/s3_manager.py and NativeDeployer.upload_to_s3: the archives    *)

ExcludedDirs == {".git", "__pycache__", "node_modules", ".env"}

\* directory components of a path (all but the file name)
DirsOf(p) == { p[i] : i \in 1..(Len(p) - 1) }

\* S3Manager._create_zip: os.walk with the excluded directory names pruned
create_zip(files) == { p \in files : DirsOf(p) \cap ExcludedDirs = {} }

\* the zip written by NativeDeployer.upload_to_s3: os.walk, nothing pruned
native_zip(files) == files

-----------------------------------------------------------------------------
(* app/services/cloud_deployment_service.py: the coordinator               *)

project_name == IF project.java_name THEN "JAVA FB" ELSE "demo"

\* a try block that begins only after the path validation
InTryBlockAfterValidation(step) == step # "validate"

\* the try block of deploy_local_project (lines 19-207) encloses every step
InTryBlock(step) == TRUE

\* the dict returned by the except clause (lines 218-223)
FailureRecord(step) ==
    [status |-> "failed", error |-> step, error_trace |-> "traceback",
     project_name |-> IF step = "validate" THEN "unknown" ELSE project_name]

\* a packaging failure that is logged and not re-raised
RaiseExceptPackaging(step) ==
    /\ failed_at' = step
    /\ IF step = "package"
       THEN pc' = "prepare" /\ UNCHANGED result
       ELSE pc' = "done" /\ result' = FailureRecord(step)

\* an exception raised by `step` and propagated to deploy_local_project
Raise(step) ==
    /\ failed_at' = step
    /\ IF InTryBlock(step)
       THEN pc' = "done" /\ result' = FailureRecord(step)
       ELSE pc' = "escaped" /\ result' = NoResult

Continue(next) ==
    /\ pc' = next
    /\ UNCHANGED <<result, failed_at>>

Started(step) == steps' = Append(steps, step)

\* STEP 1 (lines 24-29)
ValidatePath ==
    /\ pc = "start"
    /\ Started("validate")
    /\ IF project.exists THEN Continue("analyze") ELSE Raise("validate")
    /\ UNCHANGED <<input_vars, local_vars, ssh_vars, extract_vars,
                   analysis_vars, s3_vars, ec2_vars, verifier_vars,
                   launch_vars, translate_vars, inference>>

\* STEP 2 (lines 33-34)
Analyze ==
    /\ pc = "analyze"
    /\ Started("analyze")
    /\ \E llm \in LLMResponses :
          /\ analysis' = analyze_repository(project.files, llm)
          /\ technology' = extract_technology(analysis')
    /\ IF analysis'.kind = "raise" THEN Raise("analyze") ELSE Continue("package")
    /\ UNCHANGED <<input_vars, local_vars, ssh_vars, extract_vars,
                   s3_vars, ec2_vars, verifier_vars, launch_vars,
                   translate_vars, inference>>

\* STEP 4 (lines 43-44): S3Manager() and upload_project; either may raise
S3Upload ==
    /\ pc = "package"
    /\ Started("package")
    /\ \E ok \in BOOLEAN :
          IF ok
          THEN /\ s3_objects' = s3_objects \cup
                      {[bucket |-> "coastal-seven-deployments",
                        files |-> create_zip(project.files)]}
               /\ Continue("prepare")
          ELSE /\ UNCHANGED s3_objects
               /\ Raise("package")
    /\ UNCHANGED <<input_vars, local_vars, ssh_vars, extract_vars,
                   analysis_vars, s3_url, ec2_vars, verifier_vars,
                   launch_vars, translate_vars, inference>>

\* STEPS 5-7 (lines 55-88): configuration lookups and NativeDeployer(...)
Prepare ==
    /\ pc = "prepare"
    /\ Started("prepare")
    /\ \E ok \in BOOLEAN :
          IF ok THEN Continue("native_upload") ELSE Raise("prepare")
    /\ UNCHANGED <<input_vars, local_vars, ssh_vars, extract_vars,
                   analysis_vars, s3_vars, ec2_vars, verifier_vars,
                   launch_vars, translate_vars, inference>>

-----------------------------------------------------------------------------
(* app/tools/native_deployer.py: NativeDeployer                            *)

\* deploy_native line 30: upload_to_s3 (lines 64-107)
NativeUpload ==
    /\ pc = "native_upload"
    /\ Started("native_upload")
    /\ \E ok \in BOOLEAN :
          IF ok
          THEN /\ s3_objects' = s3_objects \cup
                      {[bucket |-> "coastal-seven-native",
                        files |-> native_zip(project.files)]}
               /\ s3_url' = "coastal-seven-native"
               /\ Continue("script")
          ELSE /\ UNCHANGED <<s3_objects, s3_url>>
               /\ Raise("native_upload")
    /\ UNCHANGED <<input_vars, local_vars, ssh_vars, extract_vars,
                   analysis_vars, ec2_vars, verifier_vars,
                   launch_vars, translate_vars, inference>>

\* _is_java_project, for a technology of type str
is_java_project(tech) == tech = "java" \/ project.java_name

has_frontend(cfg) == cfg.present /\ cfg.frontend # None

\* create_native_script raises: technology.lower() on None (line 304), or
\* backend_config.get on the None stored under 'backend' (lines 309-313)
ScriptRaises(tech, cfg) ==
    \* str methods raise AttributeError on None
    LET IsStr(t) == t # None
    IN
    \/ ~IsStr(tech)
    \/ ~is_java_project(tech) /\ cfg.present /\ cfg.backend = None

\* deploy_to_ec2_native line 197
CreateNativeScript ==
    /\ pc = "script"
    /\ Started("script")
    /\ IF ScriptRaises(technology, analysis.readme_config)
       THEN Raise("script")
       ELSE Continue("cleanup")
    /\ UNCHANGED <<input_vars, local_vars, ssh_vars, extract_vars,
                   analysis_vars, s3_vars, ec2_vars, verifier_vars,
                   launch_vars, translate_vars, inference>>

\* the filter of _cleanup_old_instances (lines 170-176)
CleanupMatches(i) == i.same /\ i.state \in {"running", "stopped"}

Terminated(ins) ==
    [k \in DOMAIN ins |->
        IF CleanupMatches(ins[k]) THEN [ins[k] EXCEPT !.state = "terminated"]
        ELSE ins[k]]

\* launch_new_instance line 115: _cleanup_old_instances swallows every error
CleanupOldInstances ==
    /\ pc = "cleanup"
    /\ Started("cleanup")
    /\ \E ok \in BOOLEAN :
          IF ok /\ (\E k \in DOMAIN instances : CleanupMatches(instances[k]))
          THEN /\ instances' = Terminated(instances)
               /\ ec2_calls' = Append(ec2_calls, "terminate_instances")
          ELSE UNCHANGED <<instances, ec2_calls>>
    /\ Continue("create")
    /\ UNCHANGED <<input_vars, local_vars, ssh_vars, extract_vars,
                   analysis_vars, health, deployments, s3_vars, instance_id, latest_ip,
                   verifier_vars, launch_vars, translate_vars, inference>>

\* launch_new_instance lines 118-139: run_instances
RunInstances ==
    /\ pc = "create"
    /\ Started("create")
    /\ \E ok \in BOOLEAN :
          IF ok
          THEN /\ instances' = Append(instances, [same |-> TRUE, state |-> "pending"])
               /\ instance_id' = Len(instances) + 1
               /\ ec2_calls' = Append(ec2_calls, "run_instances")
               /\ Continue("wait_running")
          ELSE /\ UNCHANGED <<instances, instance_id, ec2_calls>>
               /\ Raise("create")
    /\ UNCHANGED <<input_vars, local_vars, ssh_vars, extract_vars,
                   analysis_vars, health, deployments, s3_vars, latest_ip, verifier_vars,
                   launch_vars, translate_vars, inference>>

\* a waiter whose failure is logged and not raised
WaitRunningIgnoringFailure ==
    /\ pc = "wait_running"
    /\ Started("wait_running")
    /\ \E ok \in BOOLEAN :
          IF ok
          THEN instances' = [instances EXCEPT ![instance_id].state = "running"]
          ELSE UNCHANGED instances
    /\ Continue("describe")
    /\ UNCHANGED <<input_vars, local_vars, ssh_vars, extract_vars,
                   analysis_vars, health, deployments, s3_vars, instance_id, latest_ip,
                   ec2_calls, verifier_vars, launch_vars, translate_vars, inference>>

\* launch_new_instance lines 144-145: the instance_running waiter
WaitRunning ==
    /\ pc = "wait_running"
    /\ Started("wait_running")
    /\ \E ok \in BOOLEAN :
          IF ok
          THEN /\ instances' = [instances EXCEPT ![instance_id].state = "running"]
               /\ Continue("describe")
          ELSE /\ UNCHANGED instances
               /\ Raise("wait_running")
    /\ UNCHANGED <<input_vars, local_vars, ssh_vars, extract_vars,
                   analysis_vars, health, deployments, s3_vars, instance_id, latest_ip,
                   ec2_calls, verifier_vars, launch_vars, translate_vars, inference>>

\* launch_new_instance lines 148-150: describe_instances, PublicIpAddress
DescribeInstance ==
    /\ pc = "describe"
    /\ Started("describe")
    /\ \E ip \in {"203.0.113.7", "No-IP", "<raise>"} :
          IF ip = "<raise>"
          THEN UNCHANGED latest_ip /\ Raise("describe")
          ELSE latest_ip' = ip /\ Continue("health")
    /\ UNCHANGED <<input_vars, local_vars, ssh_vars, extract_vars,
                   analysis_vars, health, deployments, s3_vars, instances, instance_id,
                   ec2_calls, verifier_vars, launch_vars, translate_vars, inference>>

\* a status-check wait whose failure leaves the function
WaitForInstanceReadyFatal ==
    /\ pc = "health"
    /\ Started("health")
    /\ \E ok \in BOOLEAN :
          IF ok
          THEN /\ health' = [status |-> "passed", slept |-> 60]
               /\ Continue("monitor")
          ELSE /\ health' = [status |-> "failed", slept |-> 0]
               /\ Raise("health")
    /\ UNCHANGED <<input_vars, local_vars, ssh_vars, extract_vars,
                   analysis_vars, s3_vars, instances, instance_id, latest_ip,
                   ec2_calls, deployments, verifier_vars,
                   launch_vars, translate_vars, inference>>

\* deploy_to_ec2_native line 214: _wait_for_instance_ready (lines 841-869).
\* The system_status_ok waiter passes and 60 s are slept, or it raises
\* (failure or the 20 attempts used up), the except clause sleeps 120 s;
\* the function returns in both cases
WaitForInstanceReady ==
    /\ pc = "health"
    /\ Started("health")
    /\ \E ok \in BOOLEAN :
          health' = IF ok THEN [status |-> "passed", slept |-> 60]
                    ELSE [status |-> "failed", slept |-> 120]
    /\ Continue("monitor")
    /\ UNCHANGED <<input_vars, local_vars, ssh_vars, extract_vars,
                   analysis_vars, s3_vars, instances, instance_id, latest_ip,
                   ec2_calls, deployments, verifier_vars,
                   launch_vars, translate_vars, inference>>

\* deploy_to_ec2_native line 218: _monitor_aws_internals never raises
MonitorAwsInternals ==
    /\ pc = "monitor"
    /\ Started("monitor")
    /\ Continue("verify_start")
    /\ UNCHANGED <<input_vars, local_vars, ssh_vars, extract_vars,
                   analysis_vars, s3_vars, ec2_vars, verifier_vars,
                   launch_vars, translate_vars, inference>>

-----------------------------------------------------------------------------
(* NativeDeployer._wait_for_deployment: the readiness verifier             *)

max_wait_time == 480
check_interval == 30

PortSet(ports) == { ports[i] : i \in DOMAIN ports }

\* lines 578-594: the ports to poll; tags_read = FALSE is the except branch
PortsToCheck(tags_read, cfg) ==
    IF tags_read /\ project.java_name THEN <<3000, 8000>>
    ELSE IF has_frontend(cfg) THEN <<3000, 8000>>
    ELSE <<8000>>

WaitForDeploymentStart ==
    /\ pc = "verify_start"
    /\ Started("verify")
    /\ \E tags_read \in BOOLEAN :
          ports_to_check' = PortsToCheck(tags_read, analysis.readme_config)
    /\ elapsed_time' = 0
    /\ Continue("verify")
    /\ UNCHANGED <<input_vars, local_vars, ssh_vars, extract_vars,
                   analysis_vars, s3_vars, ec2_vars, ports_open,
                   attempts, sleeps, last_open, seen_open, verified,
                   launch_vars, translate_vars, inference>>

\* a loop that also runs when elapsed_time equals max_wait_time
LoopConditionInclusive(elapsed) == elapsed <= max_wait_time

\* line 603: the while condition
LoopCondition(elapsed) == elapsed < max_wait_time

\* a counter that is not reset at the start of a tick
PortsOpenAccumulated(before, open) == before + Cardinality(open)

\* lines 604-614: ports_open is reset, then counts this tick's connections
PortsOpenAfterTick(before, open) == Cardinality(open)

\* one iteration of the while loop (lines 603-636)
WaitForDeploymentTick ==
    /\ pc = "verify"
    /\ LoopCondition(elapsed_time)
    /\ \E open \in SUBSET PortSet(ports_to_check) :
          /\ ports_open' = PortsOpenAfterTick(ports_open, open)
          /\ last_open' = open
          /\ attempts' = attempts + 1
          /\ IF ports_open' = Len(ports_to_check)
             THEN /\ verified' = "True"
                  /\ Continue("urls")
                  /\ UNCHANGED <<elapsed_time, sleeps, seen_open>>
             ELSE /\ sleeps' = sleeps + 1
                  /\ elapsed_time' = elapsed_time + check_interval
                  /\ seen_open' = seen_open \cup open
                  /\ Continue("verify")
                  /\ UNCHANGED verified
    /\ UNCHANGED <<input_vars, local_vars, ssh_vars, extract_vars,
                   analysis_vars, s3_vars, ec2_vars, ports_to_check,
                   launch_vars, steps, translate_vars, inference>>

\* lines 638-639: the loop condition failed
WaitForDeploymentTimeout ==
    /\ pc = "verify"
    /\ ~LoopCondition(elapsed_time)
    /\ verified' = "False"
    /\ Continue("urls")
    /\ UNCHANGED <<input_vars, local_vars, ssh_vars, extract_vars,
                   analysis_vars, s3_vars, ec2_vars, ports_to_check,
                   elapsed_time, ports_open, attempts, sleeps, last_open,
                   seen_open, launch_vars, steps, translate_vars, inference>>

-----------------------------------------------------------------------------
(* deploy_to_ec2_native lines 233-277 and deploy_native lines 45-57        *)

Url(ip, port) == <<ip, port>>

Urls(fport, bport, v) ==
    [frontend_url |-> Url(latest_ip, fport), backend_url |-> Url(latest_ip, bport),
     latest_ip |-> latest_ip, verified |-> v]

\* the branch taken at lines 234-277; only the first two carry "verified"
DeploymentUrls(tech, cfg) ==
    IF is_java_project(tech) THEN Urls(3000, 8000, verified)
    ELSE IF has_frontend(cfg) THEN Urls(3000, 8000, verified)
    ELSE IF tech \in {"python", "fastapi"} THEN Urls(8000, 8000, Absent)
    ELSE IF tech \in {"node", "nodejs", "express"} THEN Urls(3000, 3000, Absent)
    ELSE Urls(8000, 8000, Absent)

\* deploy_native lines 45-57
NativeResult(urls) ==
    [status |-> "deployed", deployment_type |-> "native",
     frontend_url |-> urls.frontend_url, backend_url |-> urls.backend_url,
     instance_id |-> "pending", public_ip |-> urls.latest_ip,
     deployment_verified |-> Get(urls.verified, "False"),
     technology |-> technology]

ReturnUrls ==
    /\ pc = "urls"
    /\ Started("urls")
    /\ deployment_urls' = DeploymentUrls(technology, analysis.readme_config)
    /\ deployment_result' = NativeResult(deployment_urls')
    /\ Continue("access")
    /\ UNCHANGED <<input_vars, local_vars, ssh_vars, extract_vars,
                   analysis_vars, s3_vars, ec2_vars, verifier_vars,
                   translate_vars, inference>>

-----------------------------------------------------------------------------
(* deploy_local_project lines 101-207: STEP 8 and STEP 9                   *)

DefaultPublicUrl == Url("18.60.63.130", 3000)

\* lines 108-113, deployment_type "native"
MainUrl(dr, cfg) ==
    IF has_frontend(cfg) THEN dr.frontend_url ELSE dr.backend_url

DeploymentSteps ==
    << "Local project analyzed", "Project prepared locally",
       "Deployment package ready", "Pre-signed URLs generated",
       "Manual deployment instructions created", "Ready for EC2 deployment" >>

\* the dict returned at lines 180-203
SuccessRecord(dr, cfg) ==
    [status |-> "success", project_name |-> project_name,
     technology |-> technology, instance_id |-> "pending",
     public_url |-> MainUrl(dr, cfg), direct_url |-> dr.backend_url,
     deployment_steps |-> DeploymentSteps,
     deployment_type |-> dr.deployment_type, aws_deployment_info |-> None]

ConfigureAccess ==
    /\ pc = "access"
    /\ Started("access")
    /\ result' = SuccessRecord(deployment_result, analysis.readme_config)
    /\ pc' = "done"
    /\ UNCHANGED <<input_vars, local_vars, ssh_vars, extract_vars,
                   analysis_vars, s3_vars, ec2_vars, verifier_vars,
                   launch_vars, failed_at, translate_vars, inference>>

-----------------------------------------------------------------------------
(* The cloud pipeline                                                      *)

Inst(same, state) == [same |-> same, state |-> state]

\* instances left by earlier deployments
OldInstances ==
    { << >>, << Inst(TRUE, "running") >>, << Inst(TRUE, "stopped") >>,
      << Inst(TRUE, "pending") >>, << Inst(FALSE, "running") >>,
      << Inst(TRUE, "running"), Inst(FALSE, "running") >> }

NoUrls == [frontend_url |-> None, backend_url |-> None, latest_ip |-> None,
           verified |-> Absent]

\* nothing of the pipeline has run
PipelineIdle ==
    /\ analysis = DefaultPlan
    /\ technology = None
    /\ s3_objects = {}
    /\ s3_url = None
    /\ instance_id = 0
    /\ latest_ip = "pending"
    /\ health = [status |-> "none", slept |-> 0]
    /\ deployments = << >>
    /\ ports_to_check = << >>
    /\ elapsed_time = 0
    /\ ports_open = 0
    /\ attempts = 0
    /\ sleeps = 0
    /\ last_open = {}
    /\ seen_open = {}
    /\ verified = None
    /\ deployment_urls = NoUrls
    /\ deployment_result = NoResult
    /\ result = NoResult
    /\ failed_at = "none"
    /\ steps = << >>
    /\ ec2_calls = << >>
    /\ inference = NotCalled

\* no response text has been handed to the JSON extraction
ExtractorIdle ==
    /\ content = [before |-> << >>, object |-> << >>, after |-> << >>]
    /\ parsed = [variant |-> "none", outcome |-> "none", value |-> << >>]

\* neither executor and no extraction has run
ExecutorsIdle ==
    /\ plan = << >>
    /\ deployed_services = << >>
    /\ threads = << >>
    /\ local_result = NoResult
    /\ ssh_config = None
    /\ ssh_commands = << >>
    /\ ssh_log = << >>
    /\ ssh_open = "none"
    /\ remote = "absent"
    /\ ExtractorIdle

TranslatorIdle == cmd = << >> /\ out1 = << >> /\ out2 = << >>

Init ==
    LET Projects ==
            LET PipelineFiles ==
                    { {},
                      { <<".git", "config">> },
                      { <<"requirements.txt">> },
                      { <<"package.json">>, <<"node_modules", "m.js">> },
                      { <<"README.md">> },
                      { <<"README.md">>, <<"backend", "requirements.txt">>,
                        <<"frontend", "package.json">>, <<".git", "config">> } }
            IN
            { [exists |-> TRUE, files |-> f, java_name |-> j] :
                 f \in PipelineFiles, j \in BOOLEAN }
            \cup { [exists |-> FALSE, files |-> {}, java_name |-> j] : j \in BOOLEAN }
    IN
    /\ pc = "start"
    /\ project \in Projects
    /\ instances \in OldInstances
    /\ PipelineIdle
    /\ ExecutorsIdle
    /\ TranslatorIdle

Next ==
    \/ ValidatePath
    \/ Analyze
    \/ S3Upload
    \/ Prepare
    \/ NativeUpload
    \/ CreateNativeScript
    \/ CleanupOldInstances
    \/ RunInstances
    \/ WaitRunning
    \/ DescribeInstance
    \/ WaitForInstanceReady
    \/ MonitorAwsInternals
    \/ WaitForDeploymentStart
    \/ WaitForDeploymentTick
    \/ WaitForDeploymentTimeout
    \/ ReturnUrls
    \/ ConfigureAccess

Spec == Init /\ [][Next]_vars

FairSpec == Spec /\ WF_vars(Next)

-----------------------------------------------------------------------------
(* Properties of the cloud pipeline                                        *)

FailureFields == {"status", "error", "error_trace", "project_name"}

\* C1: deploy_local_project never lets an exception escape: whatever step
\* raises, the call ends with a record of status "failed" that carries the
\* error message and a trace and none of the fields of a success record.
C1_FailureIsReturnedNotRaised ==
    /\ pc # "escaped"
    /\ failed_at # "none" =>
          /\ pc = "done"
          /\ result.status = "failed"
          /\ DOMAIN result = FailureFields
          /\ result.error = failed_at
          /\ result.error_trace = "traceback"
    /\ (pc = "done" /\ failed_at = "none") => result.status = "success"

C1_Witness ==
    /\ pc = "done" /\ failed_at = "wait_running" /\ result.status = "failed"
    /\ "validate" \in { steps[i] : i \in DOMAIN steps }

IsPrefix(s, t) == Len(s) <= Len(t) /\ SubSeq(t, 1, Len(s)) = s

StepOrder ==
    << "validate", "analyze", "package", "prepare", "native_upload", "script",
       "cleanup", "create", "wait_running", "describe", "health", "monitor",
       "verify", "urls", "access" >>

BeforeProvisioning ==
    {"validate", "analyze", "package", "prepare", "native_upload", "script"}

\* C2: the steps start in the order analyze, package, provision (cleanup,
\* create, wait running), health wait, verification; the step that raised is
\* the last one started; a failure before provisioning leaves EC2 untouched,
\* and cleanup is always issued before the create.
C2_StepsInOrderAndStopAtFailure ==
    /\ IsPrefix(steps, StepOrder)
    /\ failed_at # "none" => steps # << >> /\ steps[Len(steps)] = failed_at
    /\ failed_at \in BeforeProvisioning =>
          /\ ec2_calls = << >>
          /\ instance_id = 0
          /\ \A k \in DOMAIN instances : instances[k].state # "terminated"
    /\ IsPrefix(ec2_calls, <<"terminate_instances", "run_instances">>)
       \/ IsPrefix(ec2_calls, <<"run_instances">>)

C2_Witness ==
    /\ pc = "done" /\ failed_at = "package"
    /\ \E k \in DOMAIN instances : CleanupMatches(instances[k])

\* C3: the verifier returns true exactly on the first tick on which every
\* expected port accepted a connection in that same tick; what earlier ticks
\* saw does not count, and no sleep follows the all-open tick.
C3_TrueOnlyOnAllOpenTick ==
    /\ verified = "True" =>
          /\ last_open = PortSet(ports_to_check)
          /\ sleeps = attempts - 1
          /\ elapsed_time = check_interval * sleeps
    /\ (pc = "verify" /\ attempts > 0) => last_open # PortSet(ports_to_check)
    /\ verified = "False" => last_open # PortSet(ports_to_check)

C3_Witness ==
    /\ verified = "True"
    /\ attempts = 3
    /\ Len(ports_to_check) = 2
    /\ seen_open = PortSet(ports_to_check)

\* C4: when no tick finds all ports open the verifier terminates, and it
\* returns false after exactly max_wait_time / check_interval attempts (16
\* for the built-in 480 / 30), each followed by one sleep.
C4_FalseAfterAllAttempts ==
    /\ [](verified = "False" =>
             /\ attempts = max_wait_time \div check_interval
             /\ attempts = 16
             /\ sleeps = attempts)
    /\ [](attempts <= max_wait_time \div check_interval)
    /\ (pc = "verify") ~> (verified # None)

C4_Witness ==
    /\ verified = "False"
    /\ attempts = 16
    /\ seen_open = {3000, 8000}

\* C5: a verification that timed out still ends in a success result, and
\* that result reports the deployment as unverified.
C5_TimeoutReportedAsDegraded ==
    (pc = "done" /\ failed_at = "none" /\ verified = "False") =>
        /\ result.status = "success"
        /\ "deployment_verified" \in DOMAIN result
        /\ result.deployment_verified = "False"

\* C6: public_url of a success result is the frontend URL the launcher
\* reported, else the backend URL it reported, else the placeholder.
C6_PublicUrlByPriority ==
    (pc = "done" /\ failed_at = "none") =>
        result.public_url =
            IF deployment_urls.frontend_url # None THEN deployment_urls.frontend_url
            ELSE IF deployment_urls.backend_url # None THEN deployment_urls.backend_url
            ELSE DefaultPublicUrl

-----------------------------------------------------------------------------
(* services/llm_service.py: the LLMService of the legacy entry point       *)

\* the `{"error": ...}` dict
ErrorRecord == [kind |-> "error", services |-> << >>, readme_config |-> NoReadmeConfig]

\* _get_llm_instructions: a non-200 status and every exception (timeout,
\* json.loads) become {"error": ...} (lines 236-273)
get_llm_instructions(r) ==
    IF r.kind \in LLMFailureKinds THEN ErrorRecord
    ELSE Plan(IF r.services = "plain"
              THEN << Service("backend", "python", "fastapi", ".") >>
              ELSE IF r.services = "maven"
                   THEN << Service("backend", "java", "spring", ".") >>
                   ELSE << >>,
              NoReadmeConfig)

\* _extract_readme_commands (lines 275-317)
extract_readme_commands(mentions_index_html) ==
    Plan(<< Service("backend", "java", "plain_java", "backend") >>
         \o (IF mentions_index_html
             THEN << Service("frontend", "html", "static", "frontend") >>
             ELSE << >>),
         NoReadmeConfig)

\* _llm_ignored_readme (lines 319-342)
llm_ignored_readme(r) == r.services = "maven"

\* analyze_repository (legacy variant, lines 12-51)
legacy_analyze_repository(files, r, mentions_index_html) ==
    LET instructions == get_llm_instructions(r)
    IN  IF instructions.kind = "error" THEN instructions
        ELSE IF ~r.wellformed THEN ErrorRecord
        ELSE IF FileExists(files, <<"README.md">>) /\ llm_ignored_readme(r)
             THEN extract_readme_commands(mentions_index_html)
             ELSE instructions

-----------------------------------------------------------------------------
(* The analyzers on their own                                              *)

InitAnalyzer ==
    LET AnalyzerProjects ==
            { [exists |-> TRUE, files |-> f, java_name |-> FALSE] : f \in SUBSET Paths }
    IN
    /\ pc = "analyzer"
    /\ project \in AnalyzerProjects
    /\ instances = << >>
    /\ PipelineIdle
    /\ ExecutorsIdle
    /\ TranslatorIdle

\* app/services/llm_service.py analyze_repository; the inference call is
\* made only when README.md exists
AnalyzeApp ==
    /\ pc = "analyzer"
    /\ IF FileExists(project.files, <<"README.md">>)
       THEN \E llm \in LLMResponses :
               /\ inference' = llm
               /\ analysis' = analyze_repository(project.files, llm)
       ELSE /\ inference' = NotCalled
            /\ analysis' = analyze_repository(project.files, NotCalled)
    /\ technology' = IF analysis'.kind = "plan"
                     THEN extract_technology(analysis') ELSE None
    /\ pc' = "analyzed_app"
    /\ UNCHANGED <<input_vars, local_vars, ssh_vars, extract_vars,
                   pipeline_vars, translate_vars>>

\* services/llm_service.py analyze_repository
AnalyzeLegacy ==
    \* what the model answered: no services key, an empty list, a service run
    \* without Maven, a service run with Maven; wellformed = FALSE is content
    \* that parses to a JSON number, on which `"error" in instructions` raises
    LET LegacyResponses ==
            [kind : {"json"}, services : {Absent, "empty", "plain", "maven"},
             wellformed : BOOLEAN]
            \cup { [kind |-> k, services |-> Absent, wellformed |-> TRUE] :
                      k \in LLMFailureKinds }
    IN
    /\ pc = "analyzer"
    /\ \E r \in LegacyResponses, idx \in BOOLEAN :
          /\ inference' = r
          /\ analysis' = legacy_analyze_repository(project.files, r, idx)
    /\ pc' = "analyzed_legacy"
    /\ UNCHANGED <<input_vars, local_vars, ssh_vars, extract_vars,
                   technology, pipeline_vars, translate_vars>>

NextAnalyzer == AnalyzeApp \/ AnalyzeLegacy

SpecAnalyzer == InitAnalyzer /\ [][NextAnalyzer]_vars

InferenceFailed == inference.kind \in LLMFailureKinds

Markers ==
    { <<"requirements.txt">>, <<"package.json">>,
      <<"backend", "requirements.txt">>, <<"backend", "package.json">>,
      <<"frontend", "package.json">> }

\* the marker file a service of the structure analysis stands for
MarkerOf(svc) ==
    IF svc.path = "."
    THEN << IF svc.technology = "python" THEN "requirements.txt" ELSE "package.json" >>
    ELSE << svc.path,
            IF svc.technology = "python" THEN "requirements.txt" ELSE "package.json" >>

C8_ServicesNonEmpty ==
    pc = "analyzed_app" => analysis.services # << >>

\* C19: in a plan built from an inference result there is a backend
\* service exactly when the result's backend technology is present and not
\* null, a frontend service exactly when its frontend technology is present
\* and not null, and no service has a missing or null technology.
C19_ServiceIffTechnologyDeclared ==
    (pc = "analyzed_app" /\ analysis.readme_config.present) =>
        LET services == analysis.services
            types == { services[i].type : i \in DOMAIN services }
            nulls == {Absent, None, "null"}
        IN  /\ "backend" \in types <=> inference.backend_technology \notin nulls
            /\ "frontend" \in types <=> inference.frontend_technology \notin nulls
            /\ \A i \in DOMAIN services : services[i].technology \notin nulls

-----------------------------------------------------------------------------
(* The command translators (_convert_to_linux_command) on their own.       *)
(* A command string is the sequence of its characters.                     *)

\* str.replace(old, new): every non-overlapping occurrence, left to right,
\* in one pass (the replacement text is not scanned again)
RECURSIVE replace(_, _, _)
replace(s, old, new) ==
    IF Len(s) < Len(old) THEN s
    ELSE IF SubSeq(s, 1, Len(old)) = old
         THEN new \o replace(SubSeq(s, Len(old) + 1, Len(s)), old, new)
         ELSE <<s[1]>> \o replace(Tail(s), old, new)

\* the conversions dict, in insertion order
conversions ==
    <<
       << <<"p", "y", "t", "h", "o", "n", " ">>,
          <<"p", "y", "t", "h", "o", "n", "3", " ">> >>,
       << <<"p", "y", " ">>,
          <<"p", "y", "t", "h", "o", "n", "3", " ">> >>,
       << <<"p", "i", "p", " ">>,
          <<"p", "i", "p", "3", " ">> >>,
       << <<"p", "y", "t", "h", "o", "n", ".", "e", "x", "e">>,
          <<"p", "y", "t", "h", "o", "n", "3">> >>,
       << <<"p", "y", ".", "e", "x", "e">>,
          <<"p", "y", "t", "h", "o", "n", "3">> >>,
       << <<"p", "i", "p", ".", "e", "x", "e">>,
          <<"p", "i", "p", "3">> >>,
       << <<"n", "o", "d", "e", ".", "e", "x", "e">>,
          <<"n", "o", "d", "e">> >>,
       << <<"n", "p", "m", ".", "e", "x", "e">>,
          <<"n", "p", "m">> >>,
       << <<"d", "o", "t", "n", "e", "t", ".", "e", "x", "e">>,
          <<"d", "o", "t", "n", "e", "t">> >>,
       << <<"j", "a", "v", "a", ".", "e", "x", "e">>,
          <<"j", "a", "v", "a">> >>,
       << <<"m", "v", "n", ".", "c", "m", "d">>,
          <<"m", "v", "n">> >>,
       << <<"g", "r", "a", "d", "l", "e", ".", "b", "a", "t">>,
          <<"g", "r", "a", "d", "l", "e">> >>,
       << <<"c", "o", "m", "p", "o", "s", "e", "r", ".", "p", "h", "a", "r">>,
          <<"c", "o", "m", "p", "o", "s", "e", "r">> >>,
       << <<"b", "u", "n", "d", "l", "e", ".", "e", "x", "e">>,
          <<"b", "u", "n", "d", "l", "e">> >>,
       << <<"c", "a", "r", "g", "o", ".", "e", "x", "e">>,
          <<"c", "a", "r", "g", "o">> >>,
       << <<"g", "o", ".", "e", "x", "e">>,
          <<"g", "o">> >>,
       << <<"p", "h", "p", ".", "e", "x", "e">>,
          <<"p", "h", "p">> >>,
       << <<"r", "u", "b", "y", ".", "e", "x", "e">>,
          <<"r", "u", "b", "y">> >>,
       << <<"r", "a", "i", "l", "s", ".", "e", "x", "e">>,
          <<"r", "a", "i", "l", "s">> >>
    >>

\* for windows_cmd, linux_cmd in conversions.items(): replace
RECURSIVE apply_conversions(_, _)
apply_conversions(s, i) ==
    IF i > Len(conversions) THEN s
    ELSE apply_conversions(replace(s, conversions[i][1], conversions[i][2]), i + 1)

Letters ==
    LET Uppercase == { "A", "B", "C", "D", "E", "F", "G", "H", "I", "J", "K", "L", "M", "N", "O", "P", "Q", "R", "S", "T", "U", "V", "W", "X", "Y", "Z" }
    IN
    LET Lowercase == { "a", "b", "c", "d", "e", "f", "g", "h", "i", "j", "k", "l", "m", "n", "o", "p", "q", "r", "s", "t", "u", "v", "w", "x", "y", "z" }
    IN  Lowercase \cup Uppercase

\* \w of the regular expressions
WordChars ==
    LET Digits == { "0", "1", "2", "3", "4", "5", "6", "7", "8", "9" }
    IN  Letters \cup Digits \cup {"_"}

\* re.sub(r'[A-Za-z]:', '', s)
RECURSIVE sub_drive_letters(_)
sub_drive_letters(s) ==
    IF s = << >> THEN s
    ELSE IF Len(s) >= 2 /\ s[1] \in Letters /\ s[2] = ":"
         THEN sub_drive_letters(SubSeq(s, 3, Len(s)))
         ELSE <<s[1]>> \o sub_drive_letters(Tail(s))

\* re.sub(r'\b[A-Za-z]:[/\\]', '/', s), scanning s after the character prev
\* ("" at the start of the string)
RECURSIVE sub_drive_paths(_, _)
sub_drive_paths(prev, s) ==
    IF s = << >> THEN s
    ELSE IF /\ Len(s) >= 3
            /\ prev \notin WordChars
            /\ s[1] \in Letters
            /\ s[2] = ":"
            /\ s[3] \in {"/", "\\"}
         THEN <<"/">> \o sub_drive_paths(s[3], SubSeq(s, 4, Len(s)))
         ELSE <<s[1]>> \o sub_drive_paths(s[1], Tail(s))

\* LLMService._convert_to_linux_command
app_convert_to_linux_command(command) ==
    IF command = << >> THEN command
    ELSE sub_drive_letters(
             replace(apply_conversions(command, 1), <<"\\">>, <<"/">>))

\* NativeDeployer._convert_to_linux_command
native_convert_to_linux_command(command) ==
    IF command = << >> THEN command
    ELSE LET converted == apply_conversions(command, 1)
             fixed     == replace(converted, <<"m", "a", "i", "a", "p", "p">>, <<"m", "a", "i", "n", ":", "a", "p", "p">>)
             kept      == replace(fixed, <<"m", "a", "i", "n", ":", "a", "p", "p">>, <<"m", "a", "i", "n", ":", "a", "p", "p">>)
             slashed   == replace(kept, <<"\\">>, <<"/">>)
         IN  sub_drive_paths("", slashed)

\* the pieces command strings are put together from
MaxFrags == 3

RECURSIVE Flatten(_)
Flatten(fs) == IF fs = << >> THEN << >> ELSE Head(fs) \o Flatten(Tail(fs))

Commands ==
    LET Fragments ==
            {
              <<"g", "o">>,
              <<".", "e", "x", "e">>,
              <<"p", "y">>,
              <<"p", "y", "t", "h", "o", "n">>,
              <<"p", "i", "p">>,
              <<" ">>,
              <<"C", ":">>,
              <<":">>,
              <<"\\">>,
              <<"/">>,
              <<"x">>,
              <<"m", "a", "i", "a", "p", "p">>,
              <<"m", "a", "i", "n", ":", "a", "p", "p">>
            }
    IN
    { Flatten(fs) : fs \in UNION { [1..n -> Fragments] : n \in 0..MaxFrags } }

InitTranslate ==
    /\ pc = "translator"
    /\ project = [exists |-> TRUE, files |-> {}, java_name |-> FALSE]
    /\ instances = << >>
    /\ PipelineIdle
    /\ ExecutorsIdle
    /\ cmd \in Commands
    /\ out1 = << >>
    /\ out2 = << >>

TranslateApp ==
    /\ pc = "translator"
    /\ out1' = app_convert_to_linux_command(cmd)
    /\ pc' = "app_once"
    /\ UNCHANGED <<input_vars, local_vars, ssh_vars, extract_vars,
                   analysis_vars, inference, pipeline_vars, cmd, out2>>

\* the translator run again on its own output
TranslateAppAgain ==
    /\ pc = "app_once"
    /\ out2' = app_convert_to_linux_command(out1)
    /\ pc' = "app_twice"
    /\ UNCHANGED <<input_vars, local_vars, ssh_vars, extract_vars,
                   analysis_vars, inference, pipeline_vars, cmd, out1>>

TranslateNative ==
    /\ pc = "translator"
    /\ out1' = native_convert_to_linux_command(cmd)
    /\ pc' = "native_once"
    /\ UNCHANGED <<input_vars, local_vars, ssh_vars, extract_vars,
                   analysis_vars, inference, pipeline_vars, cmd, out2>>

TranslateNativeAgain ==
    /\ pc = "native_once"
    /\ out2' = native_convert_to_linux_command(out1)
    /\ pc' = "native_twice"
    /\ UNCHANGED <<input_vars, local_vars, ssh_vars, extract_vars,
                   analysis_vars, inference, pipeline_vars, cmd, out1>>

NextTranslate ==
    \/ TranslateApp
    \/ TranslateAppAgain
    \/ TranslateNative
    \/ TranslateNativeAgain

SpecTranslate == InitTranslate /\ [][NextTranslate]_vars

\* C9: the command translator is idempotent: translating an already
\* translated command leaves it unchanged, in both variants.
C9_TranslateIdempotent ==
    pc \in {"app_twice", "native_twice"} => out2 = out1

\* C20: the translator removes a letter and its colon only where they are
\* a drive-letter prefix (a letter, a colon, a path separator) of the
\* command as it is after the executable names were substituted and the
\* backslashes normalized; every other colon, as in "main:app", stays with
\* the letter before it.
C20_OnlyDrivePrefixesRemoved ==
    pc \in {"app_once", "native_once"} =>
        LET Colons(s) == { i \in DOMAIN s : s[i] = ":" }
            Drives(s) == { i \in 1..(Len(s) - 2) :
                             /\ s[i] \in Letters
                             /\ s[i + 1] = ":"
                             /\ s[i + 2] = "/" }
            converted == apply_conversions(cmd, 1)
            fixed == IF pc = "native_once"
                     THEN replace(converted,
                                  <<"m", "a", "i", "a", "p", "p">>,
                                  <<"m", "a", "i", "n", ":", "a", "p", "p">>)
                     ELSE converted
            slashed == replace(fixed, <<"\\">>, <<"/">>)
        IN  /\ Cardinality(Colons(out1)) >=
                   Cardinality(Colons(slashed)) - Cardinality(Drives(slashed))
            /\ Drives(slashed) = {} => out1 = slashed

-----------------------------------------------------------------------------
(* The two packers on their own: S3Manager.upload_project and              *)
(* NativeDeployer.upload_to_s3 called on a directory that may be missing.  *)

\* os.walk(top): a missing top directory yields nothing and raises nothing
\* (onerror is None)
walk(p) == IF p.exists THEN p.files ELSE {}

InitPack ==
    LET PackProjects ==
            { [exists |-> e, files |-> f, java_name |-> FALSE] :
                  e \in BOOLEAN, f \in SUBSET Paths } \
            { p \in [exists : {FALSE}, files : SUBSET Paths, java_name : {FALSE}] :
                  p.files # {} }
    IN
    /\ pc = "packer"
    /\ project \in PackProjects
    /\ instances = << >>
    /\ PipelineIdle
    /\ ExecutorsIdle
    /\ TranslatorIdle

\* S3Manager.upload_project: _create_zip, then s3.upload_file, which may
\* raise; the exception is logged and raised again
UploadProject ==
    /\ pc = "packer"
    /\ \E ok \in BOOLEAN :
          IF ok
          THEN /\ s3_objects' = s3_objects \cup
                      {[bucket |-> "coastal-seven-deployments",
                        files |-> create_zip(walk(project))]}
               /\ s3_url' = "coastal-seven-deployments"
               /\ UNCHANGED failed_at
          ELSE /\ failed_at' = "upload_project"
               /\ UNCHANGED <<s3_objects, s3_url>>
    /\ pc' = "packed_s3manager"
    /\ UNCHANGED <<input_vars, local_vars, ssh_vars, extract_vars,
                   analysis_vars, inference, ec2_vars,
                   verifier_vars, launch_vars, result, steps, translate_vars>>

\* NativeDeployer.upload_to_s3: zip in memory, then s3.put_object, which
\* may raise; the exception is logged and raised again
UploadToS3 ==
    /\ pc = "packer"
    /\ \E ok \in BOOLEAN :
          IF ok
          THEN /\ s3_objects' = s3_objects \cup
                      {[bucket |-> "coastal-seven-native",
                        files |-> native_zip(walk(project))]}
               /\ s3_url' = "coastal-seven-native"
               /\ UNCHANGED failed_at
          ELSE /\ failed_at' = "upload_to_s3"
               /\ UNCHANGED <<s3_objects, s3_url>>
    /\ pc' = "packed_native"
    /\ UNCHANGED <<input_vars, local_vars, ssh_vars, extract_vars,
                   analysis_vars, inference, ec2_vars,
                   verifier_vars, launch_vars, result, steps, translate_vars>>

NextPack == UploadProject \/ UploadToS3

SpecPack == InitPack /\ [][NextPack]_vars

\* files that are under no excluded directory
Eligible(p) == { f \in walk(p) : DirsOf(f) \cap ExcludedDirs = {} }

\* C10: packing a directory that does not exist, or that has no eligible
\* file after exclusion, fails with an error; nothing is uploaded and no
\* artifact address is returned.
C10_PackingFailsWhenNothingToPack ==
    (pc \in {"packed_s3manager", "packed_native"} /\ Eligible(project) = {}) =>
        /\ failed_at # "none"
        /\ s3_objects = {}
        /\ s3_url = None

-----------------------------------------------------------------------------
(* More properties of the cloud pipeline (checked under Spec)              *)

StepsStarted == { steps[i] : i \in DOMAIN steps }

\* the objects stored under the address that create_native_script puts in
\* the user data script
FetchedArtifacts == { o \in s3_objects : o.bucket = s3_url }

\* C11: the artifact whose address is handed to the target holds exactly
\* the files of the source directory that are under no excluded directory;
\* no file under an excluded directory is in it.
C11_ArtifactHoldsEligibleFilesOnly ==
    ("script" \in StepsStarted) =>
        \A o \in FetchedArtifacts :
            /\ o.files = create_zip(project.files)
            /\ \A f \in o.files : DirsOf(f) \cap ExcludedDirs = {}

\* instances that carry the project's tag and are not terminated
LiveSameProject ==
    { k \in DOMAIN instances :
          instances[k].same /\ instances[k].state # "terminated" }

\* the cleanup request itself failed: an instance it looks for was there
\* and no termination was sent (best effort, logged and not counted here)
CleanupRequestFailed ==
    /\ "terminate_instances" \notin { ec2_calls[i] : i \in DOMAIN ec2_calls }
    /\ \E k \in DOMAIN instances :
          k # instance_id /\ CleanupMatches(instances[k])

\* C12: every earlier instance of the project that is not terminated,
\* whatever its state (pending, running or stopped), is terminated before
\* the new instance is requested, so once the new instance exists it is the
\* only live one with that tag.
C12_OneLiveInstancePerProject ==
    (/\ "run_instances" \in { ec2_calls[i] : i \in DOMAIN ec2_calls }
     /\ ~CleanupRequestFailed) =>
        LiveSameProject = {instance_id}

\* C13: the instance details are read and returned only for an instance
\* that the running-wait saw running; when the running-wait fails the
\* deployment ends failed, and neither the health wait nor the
\* verification was started.
C13_TargetOnlyAfterRunning ==
    /\ ("describe" \in StepsStarted) =>
          /\ instance_id \in DOMAIN instances
          /\ instances[instance_id].state = "running"
    /\ failed_at = "wait_running" =>
          /\ pc = "done"
          /\ result.status = "failed"
          /\ StepsStarted \cap {"describe", "health", "monitor", "verify"} = {}
          /\ attempts = 0
          /\ verified = None
          /\ latest_ip = "pending"

C13_Witness ==
    /\ failed_at = "wait_running"
    /\ instance_id \in DOMAIN instances
    /\ instances[instance_id].state = "pending"
    /\ ec2_calls = <<"terminate_instances", "run_instances">>
    /\ result.status = "failed"

\* C23: a status-check wait that fails or times out does not fail the
\* deployment: the fixed grace delay is slept and the flow goes on to the
\* readiness verification, as it does when the checks passed.
C23_HealthWaitFailureIsNotFatal ==
    health.status # "none" =>
        /\ failed_at \notin {"health", "monitor"}
        /\ health.slept = IF health.status = "failed" THEN 120 ELSE 60
        /\ \/ pc \in {"monitor", "verify_start"}
           \/ "verify" \in StepsStarted

C23_Witness ==
    /\ health.status = "failed"
    /\ "verify" \in StepsStarted
    /\ pc = "done"
    /\ result.status = "success"

\* C24: the provisioner returns a target, and the verifier and the URLs of
\* the result use, a real public address only, never a placeholder standing
\* for an address that the instance did not have yet.
C24_NoPlaceholderAddress ==
    /\ ("health" \in StepsStarted) => latest_ip \notin {"No-IP", "pending"}
    /\ deployment_urls # NoUrls =>
           /\ deployment_urls.frontend_url[1] \notin {"No-IP", "pending"}
           /\ deployment_urls.backend_url[1] \notin {"No-IP", "pending"}

\* C26: the ports the readiness verifier polls are the ports of the
\* frontend and backend URLs returned for the deployment.
C26_PolledPortsAreUrlPorts ==
    deployment_urls # NoUrls =>
        PortSet(ports_to_check) =
            {deployment_urls.frontend_url[2], deployment_urls.backend_url[2]}

-----------------------------------------------------------------------------
(* utils/universal_deployment.py: UniversalDeployment, the local executor. *)
(* execute_deployment starts one daemon thread per service; the threads    *)
(* run beside the caller and beside each other.                            *)
(* An optional dict key is a sequence: << >> when the key is absent,       *)
(* <<v>> when it is present with value v.                                  *)

\* dict.get(key, default) on such a sequence
GetKey(k, default) == IF k = << >> THEN default ELSE k[1]

\* random.randint(7000, 9999)
randint_low == 7000
randint_high == 9999

\* str(port)
str(n) ==
    CASE n = 7000 -> "7000"
      [] n = 9999 -> "9999"
      [] n = 8000 -> "8000"
      [] OTHER -> "?"

MaxBuilds == 2

\* a service dict of the instructions: up to MaxBuilds build commands, a
\* run command with or without the placeholder, port and env_vars["PORT"]
ServiceDicts ==
    [build_commands : { [k \in 1..n |-> "build"] : n \in 0..MaxBuilds },
     run_command : { <<"serve">>, <<"serve", "--port", "PORT_PLACEHOLDER">> },
     port : {<< >>, <<8000>>}, env_port : {<< >>, <<"9000">>}]

NoThread ==
    [state |-> "none", built |-> 0, failed |-> 0, port |-> 0,
     run_command |-> << >>, launched |-> << >>, env_port |-> << >>]

InitLocal ==
    \* instructions["services"]: none, one or two services
    LET LocalPlans ==
            {<< >>} \cup { <<a>> : a \in ServiceDicts }
                    \cup { <<a, b>> : a, b \in ServiceDicts }
    IN
    /\ pc = "local"
    /\ project = [exists |-> TRUE, files |-> {}, java_name |-> FALSE]
    /\ instances = << >>
    /\ PipelineIdle
    /\ TranslatorIdle
    /\ plan \in LocalPlans
    /\ deployed_services = << >>
    /\ threads = [i \in DOMAIN plan |-> NoThread]
    /\ local_result = NoResult
    /\ ssh_config = None
    /\ ssh_commands = << >>
    /\ ssh_log = << >>
    /\ ssh_open = "none"
    /\ remote = "absent"
    /\ ExtractorIdle

LocalUnchanged ==
    UNCHANGED <<input_vars, analysis_vars, inference, pipeline_vars,
                translate_vars, ssh_vars, extract_vars, plan>>

\* environment that forces PORT before the service's variables are merged
EnvPortMergedLast(env_port, port) == GetKey(env_port, str(port))

\* lines 89-91: env.update(env_vars), then env["PORT"] = str(port)
EnvPort(env_port, port) == str(port)

\* _deploy_service (lines 41-126) for the next service of the loop of
\* execute_deployment (lines 19-21): the port, the placeholder, the thread
DeployService ==
    /\ pc = "local"
    /\ Len(deployed_services) < Len(plan)
    /\ LET i == Len(deployed_services) + 1
           service == plan[i]
       IN  \E r \in {randint_low, randint_high}, started \in BOOLEAN :
              LET port == GetKey(service.port, r)
                  run_command == replace(service.run_command,
                                         <<"PORT_PLACEHOLDER">>, <<str(port)>>)
              IN  IF started
                  THEN /\ threads' = [threads EXCEPT ![i] =
                              [NoThread EXCEPT !.state = "started",
                                               !.port = port,
                                               !.run_command = run_command]]
                       /\ deployed_services' = Append(deployed_services,
                              [port |-> <<port>>, status |-> "deployed"])
                  ELSE \* thread.start() raised: the except clause (124-126)
                       /\ UNCHANGED threads
                       /\ deployed_services' = Append(deployed_services,
                              [port |-> << >>, status |-> "failed"])
    /\ UNCHANGED <<pc, local_result>>
    /\ LocalUnchanged

\* deploy_process lines 65-70: the working directory check
ThreadBegin(i) ==
    /\ threads[i].state = "started"
    /\ \E dir_ok \in BOOLEAN :
          threads' = [threads EXCEPT ![i].state =
                         IF dir_ok THEN "building" ELSE "aborted"]
    /\ UNCHANGED <<pc, deployed_services, local_result>>
    /\ LocalUnchanged

\* deploy_process lines 73-86 and 106-109: one build command; a non-zero
\* exit, a timeout or any other exception ends the thread
ThreadBuild(i) ==
    /\ threads[i].state = "building"
    /\ threads[i].built < Len(plan[i].build_commands)
    /\ \E outcome \in {"zero", "nonzero", "timeout"} :
          threads' = [threads EXCEPT
              ![i].built = @ + 1,
              ![i].failed = IF outcome = "zero" THEN 0 ELSE threads[i].built + 1,
              ![i].state = IF outcome = "zero" THEN "building" ELSE "aborted"]
    /\ UNCHANGED <<pc, deployed_services, local_result>>
    /\ LocalUnchanged

\* deploy_process lines 88-104: the environment, the second directory
\* check, then subprocess.run(run_command, env=env)
ThreadRun(i) ==
    /\ threads[i].state = "building"
    /\ threads[i].built = Len(plan[i].build_commands)
    /\ \E dir_ok \in BOOLEAN :
          IF dir_ok
          THEN threads' = [threads EXCEPT
                   ![i].state = "running",
                   ![i].launched = threads[i].run_command,
                   ![i].env_port = <<EnvPort(plan[i].env_port, threads[i].port)>>]
          ELSE threads' = [threads EXCEPT ![i].state = "aborted"]
    /\ UNCHANGED <<pc, deployed_services, local_result>>
    /\ LocalUnchanged

\* execute_deployment lines 13-15 and 23-34: the value returned, with the
\* per-service entries of "deployment_results" (lines 25-32)
ExecuteDeploymentReturn ==
    /\ pc = "local"
    /\ Len(deployed_services) = Len(plan)
    /\ local_result' =
          IF plan = << >>
          THEN [status |-> "error", services |-> << >>]
          ELSE [status |-> "results",
                services |-> [i \in DOMAIN plan |->
                    [status |-> "success", port |-> plan[i].port]]]
    /\ pc' = "local_done"
    /\ UNCHANGED <<deployed_services, threads>>
    /\ LocalUnchanged

NextLocal ==
    \/ DeployService
    \/ \E i \in DOMAIN threads : ThreadBegin(i)
    \/ \E i \in DOMAIN threads : ThreadBuild(i)
    \/ \E i \in DOMAIN threads : ThreadRun(i)
    \/ ExecuteDeploymentReturn

SpecLocal == InitLocal /\ [][NextLocal]_vars

-----------------------------------------------------------------------------
(* app/tools/ssh_deployer_s3.py: SSHDeployer.deploy_via_ssh, the executor  *)
(* that runs the command list of create_ssh_commands over one SSH session. *)

\* one entry of the command list; guarded: the command ends in `|| echo`
\* or `|| true` and so exits 0
SshCommand(service, kind, guarded) ==
    [service |-> service, kind |-> kind, guarded |-> guarded]

RECURSIVE SshBuilds(_, _)
SshBuilds(service, builds) ==
    IF builds = << >> THEN << >>
    ELSE (IF Head(builds) = "cd" THEN << >>
          ELSE << SshCommand(service, "build", FALSE) >>)
         \o SshBuilds(service, Tail(builds))

\* lines 165-200: the build commands of a service, then its run command
SshServiceCommands(service, c) ==
    SshBuilds(service, c.build_commands)
    \o (IF c.run_command # "" THEN << SshCommand(service, "run", FALSE) >>
        ELSE << >>)

\* lines 203-230: the commands chosen by technology
SshFallbackCommands(tech) ==
    IF tech \in {"python", "fastapi", "java", "spring"}
    THEN << SshCommand("app", "build", TRUE), SshCommand("app", "run", FALSE) >>
    ELSE << SshCommand("app", "build", TRUE), SshCommand("app", "build", TRUE),
            SshCommand("app", "run", FALSE) >>

\* create_ssh_commands: setup (lines 136-146, one entry), rm -rf and
\* mkdir -p of the project directory (149-150), the download and unpacking
\* of the archive (151-157, one entry), the services, the stand-in frontend
\* (233-237), the checks (239-247)
create_ssh_commands(tech, cfg) ==
    << SshCommand("system", "setup", FALSE), SshCommand("system", "rm", FALSE),
       SshCommand("system", "mkdir", FALSE),
       SshCommand("system", "download", FALSE) >>
    \o (IF cfg.present
        THEN SshServiceCommands("backend", cfg.backend[1])
             \o (IF cfg.frontend # << >>
                 THEN SshServiceCommands("frontend", cfg.frontend[1])
                 ELSE << >>)
        ELSE SshFallbackCommands(tech))
    \o << SshCommand("system", "stand_in_frontend", FALSE),
          SshCommand("system", "verify", TRUE) >>

InitSsh ==
    \* readme_config.  present: it has 'deployment_commands'; under 'backend'
    \* and 'frontend' << >> stands for None and <<c>> for the dict c, whose
    \* build_commands hold commands that start with 'cd ' (left out of the
    \* command list, lines 170 and 196) and others; run_command "" is falsy
    LET SshConfigs ==
            LET ServiceConfigs ==
                    [build_commands :
                         UNION { [1..n -> {"cd", "build"}] : n \in 0..MaxBuilds },
                     run_command : {"", "run"}]
            IN  { [present |-> TRUE, backend |-> b, frontend |-> f] :
                      b, f \in {<< >>} \cup { <<c>> : c \in ServiceConfigs } }
                \cup { [present |-> FALSE, backend |-> << >>, frontend |-> << >>] }
    IN
    /\ pc = "ssh"
    /\ project = [exists |-> TRUE, files |-> {}, java_name |-> FALSE]
    /\ instances = << >>
    /\ analysis = DefaultPlan
    /\ technology \in {"python", "node", "java", "go"}
    /\ s3_objects = {}
    /\ s3_url = None
    /\ instance_id = 0
    /\ latest_ip = "203.0.113.7"     \* the ip argument
    /\ health = [status |-> "none", slept |-> 0]
    /\ deployments = << >>
    /\ ports_to_check = << >>
    /\ elapsed_time = 0
    /\ ports_open = 0
    /\ attempts = 0
    /\ sleeps = 0
    /\ last_open = {}
    /\ seen_open = {}
    /\ verified = None
    /\ deployment_urls = NoUrls
    /\ deployment_result = NoResult
    /\ result = NoResult
    /\ failed_at = "none"
    /\ steps = << >>
    /\ ec2_calls = << >>
    /\ inference = NotCalled
    /\ TranslatorIdle
    /\ plan = << >>
    /\ deployed_services = << >>
    /\ threads = << >>
    /\ local_result = NoResult
    /\ ssh_config \in SshConfigs
    /\ ssh_commands = << >>
    /\ ssh_log = << >>
    /\ ssh_open = "none"
    /\ remote = "absent"
    /\ ExtractorIdle

SshUnchanged ==
    UNCHANGED <<input_vars, analysis_vars, inference, s3_vars, ec2_vars,
                verifier_vars, deployment_result, result,
                translate_vars, local_vars, extract_vars, ssh_config>>

\* deploy_via_ssh lines 56-91: the key file, ssh.connect, the command
\* list; backend_config.get raises on a None stored under 'backend'
\* (lines 162-167)
SshConnect ==
    /\ pc = "ssh"
    /\ \E connected \in BOOLEAN :
          IF connected /\ ~(ssh_config.present /\ ssh_config.backend = << >>)
          THEN /\ ssh_commands' = create_ssh_commands(technology, ssh_config)
               /\ ssh_open' = "open"
               /\ pc' = "ssh_exec"
               /\ UNCHANGED failed_at
          ELSE /\ failed_at' = IF connected THEN "create_ssh_commands" ELSE "connect"
               /\ ssh_open' = IF connected THEN "open" ELSE "none"
               /\ pc' = "ssh_raised"
               /\ UNCHANGED ssh_commands
    /\ UNCHANGED <<ssh_log, deployment_urls, remote, steps>>
    /\ SshUnchanged

\* create_ssh_commands of ssh_deployer.py (lines 218-330): setup, rm -rf
\* and mkdir -p of the project directory (lines 236-237), the services as
\* in ssh_deployer_s3.py (241-311), the demo frontend (315-318) and the
\* checks (320-329)
scp_create_ssh_commands(tech, cfg) ==
    << SshCommand("system", "setup", FALSE), SshCommand("system", "rm", FALSE),
       SshCommand("system", "mkdir", FALSE) >>
    \o (IF cfg.present
        THEN SshServiceCommands("backend", cfg.backend[1])
             \o (IF cfg.frontend # << >>
                 THEN SshServiceCommands("frontend", cfg.frontend[1])
                 ELSE << >>)
        ELSE SshFallbackCommands(tech))
    \o << SshCommand("system", "stand_in_frontend", FALSE),
          SshCommand("system", "verify", TRUE) >>

\* deploy_via_ssh of ssh_deployer.py, lines 55-174: ssh.connect, then the
\* project files are copied to /home/ubuntu/<project> (87-143) or, when
\* that raises, a minimal project is written there (145-160), then the
\* command list is made; its loop and its return (177-211) are those of
\* ssh_deployer_s3.py
ScpTransfer ==
    /\ pc = "ssh"
    /\ \E connected \in BOOLEAN, copied \in BOOLEAN :
          IF ~connected
          THEN /\ failed_at' = "connect"
               /\ pc' = "ssh_raised"
               /\ UNCHANGED <<ssh_commands, ssh_open, remote, steps>>
          ELSE /\ ssh_open' = "open"
               /\ remote' = IF copied THEN "transferred" ELSE "minimal"
               /\ steps' = Append(steps, "transfer")
               /\ IF ssh_config.present /\ ssh_config.backend = << >>
                  THEN /\ failed_at' = "create_ssh_commands"
                       /\ pc' = "ssh_raised"
                       /\ UNCHANGED ssh_commands
                  ELSE /\ ssh_commands' =
                              scp_create_ssh_commands(technology, ssh_config)
                       /\ pc' = "ssh_exec"
                       /\ UNCHANGED failed_at
    /\ UNCHANGED <<ssh_log, deployment_urls>>
    /\ SshUnchanged

\* what a command that exited 0 leaves in /home/ubuntu/<project>
RemoteAfter(kind, before) ==
    CASE kind = "rm" -> "absent"
      [] kind = "mkdir" /\ before = "absent" -> "empty"
      [] kind = "download" -> "unpacked"
      [] OTHER -> before

\* one iteration of the loop of lines 94-106: a non-zero exit status is
\* logged as a warning and the loop goes on (99-103); an exception of
\* exec_command leaves the function (127-129)
SshExec ==
    /\ pc = "ssh_exec"
    /\ Len(ssh_log) < Len(ssh_commands)
    /\ LET c == ssh_commands[Len(ssh_log) + 1]
       IN  \E outcome \in (IF c.guarded THEN {"zero", "raise"}
                           ELSE {"zero", "nonzero", "raise"}) :
              /\ ssh_log' = Append(ssh_log,
                     [service |-> c.service, kind |-> c.kind, exit |-> outcome,
                      remote |-> remote])
              /\ remote' = IF outcome = "zero" THEN RemoteAfter(c.kind, remote)
                           ELSE remote
              /\ pc' = IF outcome = "raise" THEN "ssh_raised" ELSE "ssh_exec"
              /\ failed_at' = IF pc' = "ssh_raised" THEN "exec_command"
                              ELSE failed_at
    /\ UNCHANGED <<ssh_commands, deployment_urls, ssh_open, steps>>
    /\ SshUnchanged

\* lines 111-125: the URLs returned, by the 'frontend' entry of the
\* README configuration alone
SshUrls(cfg) ==
    IF cfg.present /\ cfg.frontend # << >>
    THEN Urls(3000, 8000, Absent)
    ELSE Urls(8000, 8000, Absent)

\* lines 108-125: ssh.close() and the URLs
SshReturn ==
    /\ pc = "ssh_exec"
    /\ Len(ssh_log) = Len(ssh_commands)
    /\ ssh_open' = "closed"
    /\ deployment_urls' = SshUrls(ssh_config)
    /\ pc' = "ssh_done"
    /\ UNCHANGED <<ssh_commands, ssh_log, failed_at, remote, steps>>
    /\ SshUnchanged

NextSsh == SshConnect \/ ScpTransfer \/ SshExec \/ SshReturn

SpecSsh == InitSsh /\ [][NextSsh]_vars

\* C14: a build command of a service that exits non-zero ends that
\* service's deployment: no later build command of the service is run and
\* its run command is never launched; the commands of the other services
\* are still run.
C14_BuildFailureAbortsService ==
    \A k \in DOMAIN ssh_log :
        (ssh_log[k].kind = "build" /\ ssh_log[k].exit = "nonzero") =>
            \A m \in DOMAIN ssh_log :
                (m > k /\ ssh_log[m].service = ssh_log[k].service) =>
                    ssh_log[m].kind \notin {"build", "run"}

\* C21: for the same technology, README configuration and target address
\* the direct-execution launcher returns the frontend and backend URLs that
\* the bootstrap-script launcher returns.
C21_LaunchersReturnSameUrls ==
    pc = "ssh_done" =>
        LET cfg == [present |-> ssh_config.present,
                    backend |-> IF ssh_config.backend = << >>
                                THEN None ELSE "commands",
                    frontend |-> IF ssh_config.frontend = << >>
                                 THEN None ELSE "commands"]
            native == DeploymentUrls(technology, cfg)
        IN  /\ deployment_urls.frontend_url = native.frontend_url
            /\ deployment_urls.backend_url = native.backend_url

\* C29: in the file-transfer variant the project files copied to
\* /home/ubuntu/<project> are still there when a build or run command of a
\* service is executed.
C29_TransferredFilesKeptUntilLaunch ==
    ("transfer" \in StepsStarted) =>
        \A k \in DOMAIN ssh_log :
            ssh_log[k].kind \in {"build", "run"} =>
                ssh_log[k].remote \in {"transferred", "minimal"}

-----------------------------------------------------------------------------
(* Properties of the local executor (checked under SpecLocal)              *)

\* C15: when a service of the plan fails (its build exits non-zero) and a
\* sibling was started, the result is an overall success in which the
\* failed service does not carry the success status.
C15_FailedServiceReportedDegraded ==
    (pc = "local_done" /\ local_result.status = "results") =>
        \A i \in DOMAIN plan :
            (/\ threads[i].failed > 0
             /\ \E j \in DOMAIN plan : threads[j].state = "running") =>
                local_result.services[i].status # "success"

\* C16: the run command that is launched is the service's run command with
\* every port placeholder replaced by the assigned port, and PORT in its
\* environment is that same port, whatever the service's own environment
\* sets PORT to.
C16_RunCommandAndEnvUsePort ==
    \A i \in DOMAIN plan :
        threads[i].state = "running" =>
            LET given == plan[i].run_command
                run == threads[i].launched
                port == threads[i].port
            IN  /\ port = GetKey(plan[i].port, port)
                /\ deployed_services[i].port = <<port>>
                /\ Len(run) = Len(given)
                /\ \A k \in DOMAIN given :
                      run[k] = IF given[k] = "PORT_PLACEHOLDER"
                               THEN str(port) ELSE given[k]
                /\ threads[i].env_port = <<str(port)>>

C16_Witness ==
    \E i \in DOMAIN plan :
        /\ threads[i].state = "running"
        /\ plan[i].env_port = <<"9000">>
        /\ plan[i].port = << >>
        /\ threads[i].launched = <<"serve", "--port", "7000">>
        /\ threads[i].env_port = <<"7000">>

\* C17: a port allocated for a service whose port is unset lies in the
\* non-privileged range and differs from the port of every other service
\* of the plan.
C17_AllocatedPortsDistinct ==
    \A i \in DOMAIN plan :
        (plan[i].port = << >> /\ threads[i].state # "none") =>
            /\ threads[i].port \in 1024..65535
            /\ \A j \in DOMAIN plan :
                   (j # i /\ threads[j].state # "none") =>
                       threads[j].port # threads[i].port

-----------------------------------------------------------------------------
(* The JSON extraction of the two analyzers.  The response text is a       *)
(* sequence of tokens: "{" and "}", "k" for a quoted key with its colon,   *)
(* "1" for a number, "w" for a one-character word of prose, "F" for the    *)
(* code fence of three backquotes and "J" for the word json.  White space  *)
(* is not represented (json.loads and strip() skip it).                    *)

MaxProse == 2

\* str.find(tok, start) on tokens: the first index >= start that holds the
\* tokens of tok, 0 when there is none (Python: -1)
find(s, tok, start) ==
    LET hits == { i \in start..(Len(s) - Len(tok) + 1) :
                      SubSeq(s, i, i + Len(tok) - 1) = tok }
    IN  IF hits = {} THEN 0 ELSE CHOOSE i \in hits : \A j \in hits : i <= j

\* the JSON decoder on tokens: the index after the value that starts at i,
\* 0 when no value starts there.  A value is a number or an object with at
\* most one member.
RECURSIVE json_value(_, _)
json_value(s, i) ==
    IF i > Len(s) THEN 0
    ELSE IF s[i] = "1" THEN i + 1
    ELSE IF s[i] # "{" \/ i + 1 > Len(s) THEN 0
    ELSE IF s[i + 1] = "}" THEN i + 2
    ELSE IF s[i + 1] # "k" THEN 0
    ELSE LET j == json_value(s, i + 2)
         IN  IF j # 0 /\ j <= Len(s) /\ s[j] = "}" THEN j + 1 ELSE 0

\* json.loads(s): the value when the whole text is one value, an exception
\* (as the outcome "raise") otherwise
json_loads(s) ==
    IF json_value(s, 1) = Len(s) + 1
    THEN [outcome |-> "ok", value |-> s]
    ELSE [outcome |-> "raise", value |-> << >>]

\* app _analyze_from_readme lines 150-160: the span from the first '{' to
\* the last '}'; every exception ends in the structure analysis (228-231)
app_extract(s) ==
    \* str.rfind(tok): the last index that holds tok, 0 when there is none
    LET rfind(t, tok) ==
            LET hits == { i \in 1..Len(t) : <<t[i]>> = tok }
            IN  IF hits = {} THEN 0 ELSE CHOOSE i \in hits : \A j \in hits : i >= j
    IN
    LET json_start == find(s, <<"{">>, 1)
        json_end == rfind(s, <<"}">>)
    IN  IF s = << >> \/ json_start = 0 \/ json_end = 0
        THEN [outcome |-> "raise", value |-> << >>]
        ELSE json_loads(SubSeq(s, json_start, json_end))

\* content[start:end] of legacy lines 259-266, start the index after the
\* opening fence; when no closing fence follows, end is -1 and the slice
\* drops the last character (a one-character token in every such text)
fence_slice(s, start) ==
    LET end == find(s, <<"F">>, start)
    IN  IF end = 0 THEN SubSeq(s, start, Len(s) - 1)
        ELSE SubSeq(s, start, end - 1)

\* legacy _get_llm_instructions lines 258-268: the text between code
\* fences when there is a fence, the whole text otherwise, is decoded
legacy_extract(s) ==
    IF find(s, <<"F", "J">>, 1) # 0
    THEN json_loads(fence_slice(s, find(s, <<"F", "J">>, 1) + 2))
    ELSE IF find(s, <<"F">>, 1) # 0
    THEN json_loads(fence_slice(s, find(s, <<"F">>, 1) + 1))
    ELSE json_loads(s)

\* result['choices'][0]['message']['content'] / response.get("content"):
\* prose and fences, one well-formed JSON object, then prose, braces and
\* fences
ContentText == content.before \o content.object \o content.after

InitExtract ==
    /\ pc = "extract"
    /\ project = [exists |-> TRUE, files |-> {}, java_name |-> FALSE]
    /\ instances = << >>
    /\ PipelineIdle
    /\ TranslatorIdle
    /\ plan = << >>
    /\ deployed_services = << >>
    /\ threads = << >>
    /\ local_result = NoResult
    /\ ssh_config = None
    /\ ssh_commands = << >>
    /\ ssh_log = << >>
    /\ ssh_open = "none"
    /\ remote = "absent"
    /\ content \in
          [before : UNION { [1..n -> {"w", "F", "J"}] : n \in 0..MaxProse },
           object : { <<"{", "}">>, <<"{", "k", "1", "}">>,
                      <<"{", "k", "{", "}", "}">> },
           after : UNION { [1..n -> {"w", "{", "}", "F"}] : n \in 0..MaxProse }]
    /\ parsed = [variant |-> "none", outcome |-> "none", value |-> << >>]

ExtractApp ==
    /\ pc = "extract"
    /\ parsed' = [variant |-> "app"] @@ app_extract(ContentText)
    /\ pc' = "extracted"
    /\ UNCHANGED <<input_vars, analysis_vars, inference, pipeline_vars,
                   translate_vars, local_vars, ssh_vars, content>>

ExtractLegacy ==
    /\ pc = "extract"
    /\ parsed' = [variant |-> "legacy"] @@ legacy_extract(ContentText)
    /\ pc' = "extracted"
    /\ UNCHANGED <<input_vars, analysis_vars, inference, pipeline_vars,
                   translate_vars, local_vars, ssh_vars, content>>

NextExtract == ExtractApp \/ ExtractLegacy

SpecExtract == InitExtract /\ [][NextExtract]_vars

\* C18: from a response made of prose, one well-formed JSON object and
\* trailing prose that may hold braces or code fences, the analyzer decodes
\* exactly that object.
C18_ExtractsTheObject ==
    pc = "extracted" =>
        (parsed.outcome = "ok" /\ parsed.value = content.object)

-----------------------------------------------------------------------------
(* Two deployments of one project tag that run at the same time: each     *)
(* executes launch_new_instance and the rest of deploy_to_ec2_native on    *)
(* the same EC2 account.  Every EC2 call is one step; the calls of the two *)
(* deployments interleave freely, as nothing in the code serializes them.  *)

InitRace ==
    /\ pc = "race"
    /\ project = [exists |-> TRUE, files |-> {}, java_name |-> FALSE]
    /\ instances \in OldInstances
    /\ analysis = DefaultPlan
    /\ technology = None
    /\ s3_objects = {}
    /\ s3_url = None
    /\ instance_id = 0
    /\ latest_ip = "pending"
    /\ health = [status |-> "none", slept |-> 0]
    /\ deployments = [d \in {"A", "B"} |->
                        [pc |-> "cleanup", instance_id |-> 0, seen_running |-> FALSE,
                         public_ip |-> << >>, urls |-> << >>, verified |-> None]]
    /\ ports_to_check = << >>
    /\ elapsed_time = 0
    /\ ports_open = 0
    /\ attempts = 0
    /\ sleeps = 0
    /\ last_open = {}
    /\ seen_open = {}
    /\ verified = None
    /\ deployment_urls = NoUrls
    /\ deployment_result = NoResult
    /\ result = NoResult
    /\ failed_at = "none"
    /\ steps = << >>
    /\ ec2_calls = << >>
    /\ inference = NotCalled
    /\ TranslatorIdle
    /\ ExecutorsIdle

\* _cleanup_old_instances (lines 164-190) of deployment d
RaceCleanup(d) ==
    /\ deployments[d].pc = "cleanup"
    /\ \E ok \in BOOLEAN :
          IF ok /\ (\E k \in DOMAIN instances : CleanupMatches(instances[k]))
          THEN /\ instances' = Terminated(instances)
               /\ ec2_calls' = Append(ec2_calls, <<d, "terminate_instances">>)
          ELSE UNCHANGED <<instances, ec2_calls>>
    /\ deployments' = [deployments EXCEPT ![d].pc = "create"]
    /\ UNCHANGED <<pc, input_vars, analysis_vars, inference, s3_vars,
                   instance_id, latest_ip, health, verifier_vars, launch_vars,
                   result, failed_at, steps, translate_vars, local_vars,
                   ssh_vars, extract_vars>>

\* run_instances (lines 118-139) of deployment d
RaceRunInstances(d) ==
    /\ deployments[d].pc = "create"
    /\ \E ok \in BOOLEAN :
          IF ok
          THEN /\ instances' = Append(instances, Inst(TRUE, "pending"))
               /\ ec2_calls' = Append(ec2_calls, <<d, "run_instances">>)
               /\ deployments' = [deployments EXCEPT
                      ![d].pc = "wait_running",
                      ![d].instance_id = Len(instances) + 1]
          ELSE /\ UNCHANGED <<instances, ec2_calls>>
               /\ deployments' = [deployments EXCEPT ![d].pc = "failed"]
    /\ UNCHANGED <<pc, input_vars, analysis_vars, inference, s3_vars,
                   instance_id, latest_ip, health, verifier_vars, launch_vars,
                   result, failed_at, steps, translate_vars, local_vars,
                   ssh_vars, extract_vars>>

\* the instance_running waiter (lines 144-145) of deployment d: the
\* instance is seen running, or the waiter raises
RaceWaitRunning(d) ==
    /\ deployments[d].pc = "wait_running"
    /\ \E ok \in BOOLEAN :
          IF ok /\ instances[deployments[d].instance_id].state = "pending"
          THEN /\ instances' = [instances EXCEPT
                      ![deployments[d].instance_id].state = "running"]
               /\ deployments' = [deployments EXCEPT
                      ![d].pc = "describe", ![d].seen_running = TRUE]
          ELSE /\ UNCHANGED instances
               /\ deployments' = [deployments EXCEPT ![d].pc = "failed"]
    /\ UNCHANGED ec2_calls
    /\ UNCHANGED <<pc, input_vars, analysis_vars, inference, s3_vars,
                   instance_id, latest_ip, health, verifier_vars, launch_vars,
                   result, failed_at, steps, translate_vars, local_vars,
                   ssh_vars, extract_vars>>

\* describe_instances (lines 148-150): the address of the own instance,
\* written <<id>> for the instance id
RaceDescribe(d) ==
    /\ deployments[d].pc = "describe"
    /\ deployments' = [deployments EXCEPT
           ![d].pc = "verify",
           ![d].public_ip = <<deployments[d].instance_id>>]
    /\ UNCHANGED <<instances, ec2_calls>>
    /\ UNCHANGED <<pc, input_vars, analysis_vars, inference, s3_vars,
                   instance_id, latest_ip, health, verifier_vars, launch_vars,
                   result, failed_at, steps, translate_vars, local_vars,
                   ssh_vars, extract_vars>>

\* a verification that fails the deployment when its instance is gone
RaceReturnUrlsChecked(d) ==
    /\ deployments[d].pc = "verify"
    /\ IF instances[deployments[d].instance_id].state = "running"
       THEN deployments' = [deployments EXCEPT
                ![d].pc = "done", ![d].verified = "True",
                ![d].urls = deployments[d].public_ip]
       ELSE deployments' = [deployments EXCEPT ![d].pc = "failed"]
    /\ UNCHANGED <<instances, ec2_calls>>
    /\ UNCHANGED <<pc, input_vars, analysis_vars, inference, s3_vars,
                   instance_id, latest_ip, health, verifier_vars, launch_vars,
                   result, failed_at, steps, translate_vars, local_vars,
                   ssh_vars, extract_vars>>

\* deploy_to_ec2_native lines 212-277: the waits never raise; the ports of
\* a terminated instance accept no connection, so the verification times
\* out with False; the URLs are built from the address in both cases
RaceReturnUrls(d) ==
    /\ deployments[d].pc = "verify"
    /\ \E open \in BOOLEAN :
          deployments' = [deployments EXCEPT
              ![d].pc = "done",
              ![d].verified =
                  IF open /\ instances[deployments[d].instance_id].state = "running"
                  THEN "True" ELSE "False",
              ![d].urls = deployments[d].public_ip]
    /\ UNCHANGED <<instances, ec2_calls>>
    /\ UNCHANGED <<pc, input_vars, analysis_vars, inference, s3_vars,
                   instance_id, latest_ip, health, verifier_vars, launch_vars,
                   result, failed_at, steps, translate_vars, local_vars,
                   ssh_vars, extract_vars>>

NextRace ==
    \/ \E d \in {"A", "B"} : RaceCleanup(d)
    \/ \E d \in {"A", "B"} : RaceRunInstances(d)
    \/ \E d \in {"A", "B"} : RaceWaitRunning(d)
    \/ \E d \in {"A", "B"} : RaceDescribe(d)
    \/ \E d \in {"A", "B"} : RaceReturnUrls(d)

SpecRace == InitRace /\ [][NextRace]_vars

\* C22: cleanup-then-create is not mutually exclusive across deployments
\* of one project tag.  An instance that its deployment created and saw
\* running is terminated by nothing but the cleanup of the other
\* deployment, issued after the instance was created; the deployment is not
\* stopped by that: it goes on to the verification and returns the URLs of
\* its instance, terminated or not.
C22_CleanupRaceIsOpen ==
    \A d \in DOMAIN deployments :
        LET own == deployments[d]
        IN  own.seen_running =>
               /\ own.pc \in {"describe", "verify", "done"}
               /\ own.pc = "done" =>
                     (own.urls = <<own.instance_id>> /\ own.verified # None)
               /\ instances[own.instance_id].state = "terminated" =>
                     \E i, j \in DOMAIN ec2_calls :
                        /\ i < j
                        /\ ec2_calls[i] = <<d, "run_instances">>
                        /\ ec2_calls[j][1] # d
                        /\ ec2_calls[j][2] = "terminate_instances"

\* deployment B's cleanup has terminated the instance that A created and
\* saw running, and A has returned the URLs of that instance
C22_Witness ==
    /\ deployments # << >>
    /\ deployments["A"].pc = "done"
    /\ deployments["A"].seen_running
    /\ deployments["A"].urls = <<deployments["A"].instance_id>>
    /\ instances[deployments["A"].instance_id].state = "terminated"
    /\ \E j \in DOMAIN ec2_calls : ec2_calls[j] = <<"B", "terminate_instances">>

-----------------------------------------------------------------------------
(* app/tools/ec2_manager.py: EC2Manager.deploy_to_instance, which connects *)
(* over SSH with retries and runs a fixed command list.  ssh_config holds  *)
(* the mock_mode of the manager and the port argument.                     *)

max_retries == 3
retry_sleep == 10

\* a test that lets one more pass through before giving up
LastAttemptLate(attempt) == attempt = max_retries

\* lines 69-70: `if attempt == max_retries - 1: raise e`
LastAttempt(attempt) == attempt = max_retries - 1

InitEc2 ==
    /\ pc = "ec2_connect"
    /\ project = [exists |-> TRUE, files |-> {}, java_name |-> FALSE]
    /\ instances = << >>
    /\ PipelineIdle
    /\ TranslatorIdle
    /\ plan = << >>
    /\ deployed_services = << >>
    /\ threads = << >>
    /\ local_result = NoResult
    /\ ssh_config \in [mock_mode : BOOLEAN, port : {80, 8000}]
    /\ ssh_commands = << >>
    /\ ssh_log = << >>
    /\ ssh_open = "none"
    /\ remote = "absent"
    /\ ExtractorIdle

Ec2Unchanged ==
    UNCHANGED <<input_vars, analysis_vars, inference, s3_vars, ec2_vars,
                ports_to_check, ports_open, last_open, seen_open, verified,
                launch_vars, steps, translate_vars, local_vars, extract_vars,
                ssh_config, remote>>

\* lines 37-88: the mock answer, or one pass of the loop
\* `for attempt in range(max_retries)` (attempts counts the passes made).
\* After the loop the command list of lines 77-88 is made, in which the
\* docker stop and docker rm commands end in `|| true`.
Ec2Connect ==
    /\ pc = "ec2_connect"
    /\ IF ssh_config.mock_mode
       THEN /\ result' = [status |-> "deployed", port |-> ssh_config.port]
            /\ pc' = "ec2_done"
            /\ UNCHANGED <<attempts, sleeps, elapsed_time, ssh_open,
                           ssh_commands, failed_at>>
       ELSE /\ attempts' = attempts + 1
            /\ \E connected \in BOOLEAN :
                  IF connected
                  THEN /\ ssh_open' = "open"
                       /\ pc' = "ec2_exec"
                       /\ UNCHANGED <<sleeps, elapsed_time, failed_at>>
                  ELSE IF LastAttempt(attempts)
                  THEN /\ failed_at' = "connect"
                       /\ pc' = "ec2_raised"
                       /\ UNCHANGED <<sleeps, elapsed_time, ssh_open>>
                  ELSE /\ sleeps' = sleeps + 1
                       /\ elapsed_time' = elapsed_time + retry_sleep
                       /\ pc' = IF attempts' < max_retries
                                THEN "ec2_connect" ELSE "ec2_exec"
                       /\ UNCHANGED <<ssh_open, failed_at>>
            /\ ssh_commands' =
                  IF pc' = "ec2_exec"
                  THEN [k \in 1..10 |->
                           SshCommand("app", IF k = 10 THEN "run" ELSE "build",
                                      k \in {8, 9})]
                  ELSE ssh_commands
            /\ UNCHANGED result
    /\ UNCHANGED ssh_log
    /\ Ec2Unchanged

\* lines 90-108: one command.  exec_command raises on a client that is not
\* connected, and a non-zero exit status raises (103-105); every exception
\* leaves through the handler of lines 131-139, which raises again.
Ec2Exec ==
    /\ pc = "ec2_exec"
    /\ Len(ssh_log) < Len(ssh_commands)
    /\ LET c == ssh_commands[Len(ssh_log) + 1]
       IN  \E outcome \in (IF ssh_open # "open" THEN {"raise"}
                           ELSE IF c.guarded THEN {"zero", "raise"}
                           ELSE {"zero", "nonzero", "raise"}) :
              /\ ssh_log' = Append(ssh_log,
                     [service |-> c.service, kind |-> c.kind, exit |-> outcome,
                      remote |-> remote])
              /\ pc' = IF outcome = "zero" THEN "ec2_exec" ELSE "ec2_raised"
              /\ failed_at' = IF outcome = "zero" THEN failed_at ELSE "command"
    /\ UNCHANGED <<attempts, sleeps, elapsed_time, ssh_open, ssh_commands,
                   result>>
    /\ Ec2Unchanged

\* lines 110-129: `docker ps | grep` for the container, ssh.close() and the
\* returned dict; exec_command of the verification may raise
Ec2Return ==
    /\ pc = "ec2_exec"
    /\ Len(ssh_log) = Len(ssh_commands)
    /\ \E verification \in {"running", "missing", "raise"} :
          IF verification = "raise"
          THEN /\ pc' = "ec2_raised"
               /\ failed_at' = "verify"
               /\ UNCHANGED <<ssh_open, result>>
          ELSE /\ ssh_open' = "closed"
               /\ result' = [status |-> IF verification = "running"
                                        THEN "deployed"
                                        ELSE "deployed_with_warnings",
                             port |-> ssh_config.port]
               /\ pc' = "ec2_done"
               /\ UNCHANGED failed_at
    /\ UNCHANGED <<attempts, sleeps, elapsed_time, ssh_commands, ssh_log>>
    /\ Ec2Unchanged

NextEc2 == Ec2Connect \/ Ec2Exec \/ Ec2Return

SpecEc2 == InitEc2 /\ [][NextEc2]_vars

\* C25: deploy_to_instance makes at most 3 connection attempts and none after
\* the first success; it waits a fixed 10 seconds after each failed attempt
\* but the last; after a third failure it raises, and no command has been
\* executed.  Commands are executed only on an established connection.
C25_ConnectRetriesBounded ==
    /\ attempts <= 3
    /\ elapsed_time = 10 * sleeps
    /\ (pc = "ec2_connect") => (ssh_open = "none" /\ sleeps = attempts)
    /\ (ssh_open # "none") => (sleeps = attempts - 1)
    /\ (pc = "ec2_exec" \/ ssh_log # << >>) => ssh_open # "none"
    /\ (failed_at = "connect") =>
          (attempts = 3 /\ sleeps = 2 /\ ssh_log = << >> /\ ssh_open = "none"
           /\ pc = "ec2_raised")
    /\ (pc = "ec2_raised" /\ ssh_open = "none") => failed_at = "connect"

C25_Witness ==
    /\ pc = "ec2_raised"
    /\ failed_at = "connect"
    /\ attempts = 3
    /\ sleeps = 2
    /\ ssh_log = << >>

\* C30: when deploy_to_instance has returned or raised, the connection it
\* opened is closed.
C30_ConnectionClosedOnEveryPath ==
    pc \in {"ec2_done", "ec2_raised"} => ssh_open # "open"

-----------------------------------------------------------------------------
(* Further properties of the bootstrap script and of the local executor    *)

\* C27: create_native_script returns a script for every plan that
\* _analyze_from_readme returns, a frontend-only plan with None under
\* 'backend' included: the script step never raises for such a plan.
C27_ScriptTotalOverReadmePlans ==
    ("script" \in StepsStarted /\ analysis.readme_config.present) =>
        failed_at # "script"

\* C28: the port reported for a service by execute_deployment is the port
\* its _deploy_service call substituted into the run command and exported,
\* also when the plan left the port unset.
C28_ReportedPortIsLaunchPort ==
    (pc = "local_done" /\ local_result.status = "results") =>
        \A i \in DOMAIN plan :
            threads[i].state # "none" =>
                local_result.services[i].port = <<threads[i].port>>

====
